---- MODULE Spec2Model ----
(***************************************************************************)
(* State-machine model of ActiveSlamEnv (src/env.py): a grid world with a  *)
(* ground-truth map, a belief map built by an 8-direction ray scan, an     *)
(* agent with position and orientation, and the reset/step operations.     *)
(*                                                                         *)
(* Coordinates are the code's 0-based (row, col) pairs.  Rewards are kept  *)
(* in tenths (reward10 = 10 * reward) so that -5.0, k * 1.0 and -0.1 are   *)
(* integers; the coverage test count / size > 0.95 is kept as the integer  *)
(* comparison 100 * count > 95 * size, which agrees with the correctly     *)
(* rounded float division for every map size the model can hold.           *)
(***************************************************************************)
EXTENDS Integers, Sequences, FiniteSets

VARIABLES true_map, height, width, belief_map, agent_pos, agent_dir,
          result, episode_done, lidar, driver

vars == <<true_map, height, width, belief_map, agent_pos, agent_dir,
          result, episode_done, lidar, driver>>

\* lidar: the position of a scan that is followed loop iteration by loop
\* iteration; driver: the position of the random driver's two loops.  Both
\* are idle while reset() and step() are taken as single steps.
LidarIdle ==
    [pc |-> "idle", i |-> 0, ray |-> <<>>, newly |-> 0, call |-> "none",
     action |-> -1, is_collision |-> FALSE]

DriverIdle == [pc |-> "idle", episode |-> 0, step |-> 0, calls |-> 0]

\* ------------------------------------------------------------------------
\* Bounds of the model
\* ------------------------------------------------------------------------
MaxHeight == 2
MaxWidth == 2

\* ------------------------------------------------------------------------
\* Constants of the program
\* ------------------------------------------------------------------------
UNKNOWN == -1
EMPTY == 0
WALL == 1

\* orientation code + 1 -> displacement (0:East, 1:North, 2:West, 3:South)
directions == << <<0, 1>>, <<-1, 0>>, <<0, -1>>, <<1, 0>> >>

action_space == {0, 1, 2}

\* Action codes handed to step(): the three legal ones and one illegal one.
ActionInputs == action_space \cup {99}

\* ------------------------------------------------------------------------
\* Ground-truth maps
\* ------------------------------------------------------------------------
CellsOf(h, w) == (0 .. h - 1) \X (0 .. w - 1)

Cells == CellsOf(height, width)

FromRows(rows) ==
    [h |-> Len(rows), w |-> Len(rows[1]),
     m |-> [p \in CellsOf(Len(rows), Len(rows[1])) |-> rows[p[1] + 1][p[2] + 1]]]

\* 5x5 room: Wall border, all-Empty 3x3 interior.
OpenRoom ==
    FromRows(<< <<1, 1, 1, 1, 1>>,
                <<1, 0, 0, 0, 1>>,
                <<1, 0, 0, 0, 1>>,
                <<1, 0, 0, 0, 1>>,
                <<1, 1, 1, 1, 1>> >>)

\* 2x10 corridor (20 cells): an Empty row above a row of Walls.
Corridor ==
    FromRows(<< <<0, 0, 0, 0, 0, 0, 0, 0, 0, 0>>,
                <<1, 1, 1, 1, 1, 1, 1, 1, 1, 1>> >>)

\* 3x4 map without a Wall border, with Walls that hide cells from the start.
Pillar ==
    FromRows(<< <<0, 1, 0, 0>>,
                <<0, 0, 0, 1>>,
                <<1, 0, 0, 0>> >>)

\* np.loadtxt gives a 2-D array only for files of at least 2 rows and 2
\* columns, and reset() inside __init__ needs an Empty cell.
SmallMaps ==
    UNION {{[h |-> e[1], w |-> e[2], m |-> f] :
                f \in [CellsOf(e[1], e[2]) -> {EMPTY, WALL}]} :
           e \in (2 .. MaxHeight) \X (2 .. MaxWidth)}

MapInputs ==
    {i \in SmallMaps : \E p \in DOMAIN i.m : i.m[p] = EMPTY}
    \cup {OpenRoom, Corridor, Pillar}

\* ------------------------------------------------------------------------
\* Array indexing
\* ------------------------------------------------------------------------
\* the scan's own bounds test
InBounds(p) == /\ 0 <= p[1] /\ p[1] < height
               /\ 0 <= p[2] /\ p[2] < width

\* numpy accepts an index i on an axis of size n iff -n <= i < n ...
NpIndexOK(p) == /\ -height <= p[1] /\ p[1] < height
                /\ -width <= p[2] /\ p[2] < width

\* ... and a negative index counts from the end of the axis.
NpIndex(p) == <<p[1] % height, p[2] % width>>

\* ------------------------------------------------------------------------
\* _get_observation: row-major flattening of the belief map
\* ------------------------------------------------------------------------
get_observation(b) ==
    [i \in 1 .. (height * width) |-> b[<<(i - 1) \div width, (i - 1) % width>>]]

\* ------------------------------------------------------------------------
\* _update_belief_map_with_lidar
\* ------------------------------------------------------------------------
\* The scan visits the cells of 8 rays.  Which cells a ray visits depends on
\* true_map and the agent position only, and the rays of one scan share no
\* cell, so the scan is modelled in two parts: the cells visited (the loops
\* and their two break conditions), then the guarded write and the counter
\* applied to every visited cell.

\* the 8 directions of the two nested for loops (dx = dy = 0 skipped)
LidarDirsOrthogonal ==
    {d \in {-1, 0, 1} \X {-1, 0, 1} : (d[1] = 0) # (d[2] = 0)}

LidarDirs ==
    {d \in {-1, 0, 1} \X {-1, 0, 1} : ~(d[1] = 0 /\ d[2] = 0)}

\* step 4 of the ray loop: a Wall ends the ray, after it was recorded
RayStopsNever(true_val) == FALSE

RayStops(true_val) == true_val = WALL

\* the while loop of one ray: the cells visited from its k-th iteration on,
\* where the k-th iteration looks at pos + k * d
RECURSIVE RayMarch(_, _, _)
RayMarch(pos, d, k) ==
    LET ray == <<pos[1] + k * d[1], pos[2] + k * d[2]>>
    IN  IF ~InBounds(ray)
        THEN {}
        ELSE IF RayStops(true_map[ray])
             THEN {ray}
             ELSE {ray} \cup RayMarch(pos, d, k + 1)

ScanCellsAdjacent(pos) ==
    {c \in Cells : \E d \in LidarDirs : c = <<pos[1] + d[1], pos[2] + d[2]>>}

ScanCells(pos) == UNION {RayMarch(p, d, 1) : p \in {pos}, d \in LidarDirs}

\* step 3 of the ray loop, the write: a visited cell that is still Unknown
\* takes the ground-truth value
ObserveVisitedOnly(b, visited) ==
    [p \in Cells |-> IF p \in visited THEN true_map[p] ELSE UNKNOWN]

Observe(b, visited) ==
    [p \in Cells |-> IF b[p] = UNKNOWN /\ p \in visited
                     THEN true_map[p] ELSE b[p]]

\* step 3 of the ray loop, the counter: incremented inside the same guard
NewlyDiscoveredAll(b, visited) == Cardinality(visited)

NewlyDiscovered(b, visited) ==
    Cardinality({p \in visited : b[p] = UNKNOWN})

AllUnknown == [p \in Cells |-> UNKNOWN]

update_belief_map_with_lidar_fresh(b, pos) ==
    CHOOSE r \in {[belief |-> Observe(AllUnknown, visited),
                   newly |-> NewlyDiscovered(AllUnknown, visited)] :
                      visited \in {ScanCells(pos)}} : TRUE

\* result: the updated belief map and newly_discovered_cells
update_belief_map_with_lidar(b, pos) ==
    CHOOSE r \in {[belief |-> Observe(b0, visited),
                   newly |-> NewlyDiscovered(b0, visited)] :
                      b0 \in {b}, visited \in {ScanCells(pos)}} : TRUE

\* ------------------------------------------------------------------------
\* reset
\*
\* result is the outcome of the last call: which call it was, the action it
\* was given, whether it returned ("ok") or raised, the returned observation,
\* reward (in tenths) and done flag, and the values of the locals
\* is_collision and newly_discovered_cells; was_done tells whether a step of
\* the same episode had returned done = true before the call.
\* ------------------------------------------------------------------------
RowMajor(p) == p[1] * width + p[2]

\* np.argwhere(true_map == EMPTY)[0]
FirstEmpty ==
    CHOOSE p \in Cells :
        /\ true_map[p] = EMPTY
        /\ \A q \in Cells : true_map[q] = EMPTY => RowMajor(p) <= RowMajor(q)

ResetStateNoScan ==
    LET pos == FirstEmpty
        b1 == [AllUnknown EXCEPT ![pos] = EMPTY]
    IN  [belief |-> b1, pos |-> pos, obs |-> get_observation(b1)]

ResetState ==
    CHOOSE rs \in UNION {
        {[belief |-> scan.belief, pos |-> pos,
          obs |-> get_observation(scan.belief)] :
             scan \in {update_belief_map_with_lidar(
                           [AllUnknown EXCEPT ![pos] = EMPTY], pos)}} :
        pos \in {FirstEmpty}} : TRUE

ResetResult(rs) ==
    [call |-> "reset", action |-> -1, outcome |-> "ok", obs |-> rs.obs,
     reward10 |-> 0, done |-> FALSE, is_collision |-> FALSE, newly |-> 0,
     was_done |-> FALSE]

Reset ==
    \E rs \in {ResetState} :
        /\ belief_map' = rs.belief
        /\ agent_pos' = rs.pos
        /\ result' = ResetResult(rs)
        /\ episode_done' = FALSE
        /\ UNCHANGED <<true_map, height, width, agent_dir>>

\* ------------------------------------------------------------------------
\* __init__
\* ------------------------------------------------------------------------
Init ==
    \E i \in MapInputs :
        /\ true_map = i.m
        /\ height = i.h
        /\ width = i.w
        /\ agent_dir = 0
        /\ belief_map = ResetState.belief
        /\ agent_pos = ResetState.pos
        /\ result = ResetResult(ResetState)
        /\ episode_done = FALSE
        /\ lidar = LidarIdle
        /\ driver = DriverIdle

\* ------------------------------------------------------------------------
\* step
\* ------------------------------------------------------------------------
\* 1. orientation change
TurnNoWrap(dir, action) ==
    IF action = 1 THEN dir + 1
    ELSE IF action = 2 THEN dir - 1
    ELSE dir

Turn(dir, action) ==
    IF action = 1 THEN (dir + 1) % 4
    ELSE IF action = 2 THEN (dir - 1 + 4) % 4
    ELSE dir

\* 2. candidate position
NewPosAnyAction(pos, dir, action) ==
    <<pos[1] + directions[dir + 1][1], pos[2] + directions[dir + 1][2]>>

NewPos(pos, dir, action) ==
    IF action = 0
    THEN <<pos[1] + directions[dir + 1][1], pos[2] + directions[dir + 1][2]>>
    ELSE pos

\* the only way step() can fail: the read of true_map at the candidate
StepOutcomeGuarded(action) ==
    IF episode_done THEN "StepAfterDoneError"
    ELSE IF NpIndexOK(NewPos(agent_pos, Turn(agent_dir, action), action))
    THEN "ok" ELSE "IndexError"

StepOutcome(action) ==
    IF NpIndexOK(NewPos(agent_pos, Turn(agent_dir, action), action))
    THEN "ok" ELSE "IndexError"

\* 5. reward, in tenths
Reward10(is_collision, newly) ==
    (IF is_collision THEN -50 ELSE 0) + newly * 10 - 1

\* 6. coverage > 0.95
KnownCount(b) == Cardinality({p \in Cells : b[p] # UNKNOWN})

CoverageDoneGe(b) == 100 * KnownCount(b) >= 95 * (height * width)

CoverageDone(b) == 100 * KnownCount(b) > 95 * (height * width)

Step(action) ==
    LET dir2 == Turn(agent_dir, action)
        new_pos == NewPos(agent_pos, dir2, action)
        outcome == StepOutcome(action)
    IN  IF outcome # "ok"
        THEN /\ agent_dir' = (IF outcome = "IndexError" THEN dir2 ELSE agent_dir)
             /\ result' = [call |-> "step", action |-> action,
                           outcome |-> outcome, obs |-> <<>>, reward10 |-> 0,
                           done |-> FALSE, is_collision |-> FALSE, newly |-> 0,
                           was_done |-> episode_done]
             /\ UNCHANGED <<true_map, height, width, belief_map, agent_pos,
                            episode_done>>
        ELSE LET is_collision == true_map[NpIndex(new_pos)] = WALL
                 pos2 == IF is_collision THEN agent_pos ELSE new_pos
             IN  \E scan \in {update_belief_map_with_lidar(belief_map, pos2)} :
                 \E done \in {CoverageDone(scan.belief)} :
                 /\ agent_dir' = dir2
                 /\ agent_pos' = pos2
                 /\ belief_map' = scan.belief
                 /\ result' = [call |-> "step", action |-> action,
                               outcome |-> "ok",
                               obs |-> get_observation(scan.belief),
                               reward10 |-> Reward10(is_collision, scan.newly),
                               done |-> done, is_collision |-> is_collision,
                               newly |-> scan.newly,
                               was_done |-> episode_done]
                 /\ episode_done' = (episode_done \/ done)
                 /\ UNCHANGED <<true_map, height, width>>

Next ==
    /\ Reset \/ \E a \in ActionInputs : Step(a)
    /\ UNCHANGED <<lidar, driver>>

Spec == Init /\ [][Next]_vars

\* ------------------------------------------------------------------------
\* Construction from any integer matrix
\*
\* np.loadtxt(dtype=int) accepts every rectangular matrix of integers, and
\* __init__ does not look at the values.  InitLoaded is the state inside
\* __init__ before its reset() call, for matrices whose cells hold 0, 1 or 2
\* (with or without an Empty cell); belief_map and agent_pos do not exist
\* yet, which the empty tuple stands for.
\* ------------------------------------------------------------------------
LoadInputs ==
    UNION {{[h |-> e[1], w |-> e[2], m |-> f] :
                f \in [CellsOf(e[1], e[2]) -> {EMPTY, WALL, 2}]} :
           e \in (2 .. MaxHeight) \X (2 .. MaxWidth)}

InitLoaded ==
    \E i \in LoadInputs :
        /\ true_map = i.m
        /\ height = i.h
        /\ width = i.w
        /\ agent_dir = 0
        /\ belief_map = <<>>
        /\ agent_pos = <<>>
        /\ result = [call |-> "new", action |-> -1, outcome |-> "ok",
                     obs |-> <<>>, reward10 |-> 0, done |-> FALSE,
                     is_collision |-> FALSE, newly |-> 0, was_done |-> FALSE]
        /\ episode_done = FALSE
        /\ lidar = LidarIdle
        /\ driver = DriverIdle

HasEmpty == \E p \in Cells : true_map[p] = EMPTY

\* reset() without an Empty cell: the belief map is already replaced when
\* start_pos_arr[0] raises IndexError on the empty array
ResetFails ==
    /\ ~HasEmpty
    /\ belief_map' = AllUnknown
    /\ result' = [call |-> "reset", action |-> -1, outcome |-> "IndexError",
                  obs |-> <<>>, reward10 |-> 0, done |-> FALSE,
                  is_collision |-> FALSE, newly |-> 0, was_done |-> FALSE]
    /\ UNCHANGED <<true_map, height, width, agent_pos, agent_dir,
                   episode_done>>

\* the reset() call that ends __init__
Construct ==
    /\ result.call = "new"
    /\ (HasEmpty /\ Reset) \/ ResetFails
    /\ UNCHANGED <<lidar, driver>>

\* an environment exists once __init__ has returned
Constructed == result.call # "new" /\ HasEmpty

NextLoaded == Construct \/ (Constructed /\ Next)

SpecLoaded == InitLoaded /\ [][NextLoaded]_vars

\* ------------------------------------------------------------------------
\* The scan, one loop iteration at a time
\*
\* reset() and step() are split at their call of the scan: the call action
\* does what the method does before the scan, every pass of the for loops
\* and of the while loop is an action, and the return action does what the
\* method does after the scan.  lidar holds the position inside the scan:
\* pc ("for" = at the head of the inner for loop, "while" = at the head of
\* the while loop), i = the number of the (dx, dy) pair in loop order, ray =
\* (ray_x, ray_y), newly = newly_discovered_cells, and the locals of the
\* calling method that are needed after the scan.
\* ------------------------------------------------------------------------
\* the i-th (dx, dy) of "for dx in [-1, 0, 1]: for dy in [-1, 0, 1]"
DirAt(i) == <<((i - 1) \div 3) - 1, ((i - 1) % 3) - 1>>

LastDir == 9

\* "if dx == 0 and dy == 0: continue"
SkipsNoDirection(d) == FALSE

SkipsDirection(d) == d[1] = 0 /\ d[2] = 0

\* reset() up to its scan: belief wiped, agent on the first Empty cell,
\* that cell marked Empty
LidarResetCall ==
    /\ lidar.pc = "idle"
    /\ agent_pos' = FirstEmpty
    /\ belief_map' = [AllUnknown EXCEPT ![FirstEmpty] = EMPTY]
    /\ episode_done' = FALSE
    /\ lidar' = [pc |-> "for", i |-> 1, ray |-> FirstEmpty, newly |-> 0,
                 call |-> "reset", action |-> -1, is_collision |-> FALSE]
    /\ UNCHANGED <<true_map, height, width, agent_dir, result, driver>>

\* step() up to its scan: turn, candidate position, collision test, move;
\* a step that raises never reaches the scan
LidarStepCall(action) ==
    /\ lidar.pc = "idle"
    /\ IF StepOutcome(action) # "ok"
       THEN Step(action) /\ UNCHANGED <<lidar, driver>>
       ELSE LET dir2 == Turn(agent_dir, action)
                new_pos == NewPos(agent_pos, dir2, action)
                is_collision == true_map[NpIndex(new_pos)] = WALL
                pos2 == IF is_collision THEN agent_pos ELSE new_pos
            IN  /\ agent_dir' = dir2
                /\ agent_pos' = pos2
                /\ lidar' = [pc |-> "for", i |-> 1, ray |-> pos2,
                             newly |-> 0, call |-> "step",
                             action |-> action,
                             is_collision |-> is_collision]
                /\ UNCHANGED <<true_map, height, width, belief_map, result,
                               episode_done, driver>>

\* one pass of the inner for loop: skip (0, 0), else start a ray at the agent
LidarFor ==
    /\ lidar.pc = "for"
    /\ lidar.i <= LastDir
    /\ lidar' = IF SkipsDirection(DirAt(lidar.i))
                THEN [lidar EXCEPT !.i = lidar.i + 1]
                ELSE [lidar EXCEPT !.pc = "while", !.ray = agent_pos]
    /\ UNCHANGED <<true_map, height, width, belief_map, agent_pos, agent_dir,
                   result, episode_done, driver>>

\* one pass of the while loop: advance, leave the ray outside the map, write
\* and count an Unknown cell, leave the ray on a Wall
LidarWhile ==
    /\ lidar.pc = "while"
    /\ LET d == DirAt(lidar.i)
           ray == <<lidar.ray[1] + d[1], lidar.ray[2] + d[2]>>
       IN  IF ~InBounds(ray)
           THEN /\ lidar' = [lidar EXCEPT !.pc = "for", !.i = lidar.i + 1]
                /\ UNCHANGED belief_map
           ELSE LET fresh == belief_map[ray] = UNKNOWN
                    n == IF fresh THEN lidar.newly + 1 ELSE lidar.newly
                IN  /\ belief_map' = IF fresh
                                     THEN [belief_map EXCEPT
                                               ![ray] = true_map[ray]]
                                     ELSE belief_map
                    /\ lidar' = IF RayStops(true_map[ray])
                                THEN [lidar EXCEPT !.pc = "for",
                                                   !.i = lidar.i + 1,
                                                   !.newly = n]
                                ELSE [lidar EXCEPT !.ray = ray, !.newly = n]
    /\ UNCHANGED <<true_map, height, width, agent_pos, agent_dir, result,
                   episode_done, driver>>

\* the scan returns and the calling method finishes
LidarReturn ==
    /\ lidar.pc = "for"
    /\ lidar.i > LastDir
    /\ IF lidar.call = "reset"
       THEN /\ result' = ResetResult([obs |-> get_observation(belief_map)])
            /\ UNCHANGED episode_done
       ELSE \E done \in {CoverageDone(belief_map)} :
            /\ result' = [call |-> "step", action |-> lidar.action,
                          outcome |-> "ok",
                          obs |-> get_observation(belief_map),
                          reward10 |-> Reward10(lidar.is_collision,
                                                lidar.newly),
                          done |-> done,
                          is_collision |-> lidar.is_collision,
                          newly |-> lidar.newly,
                          was_done |-> episode_done]
            /\ episode_done' = (episode_done \/ done)
    /\ lidar' = LidarIdle
    /\ UNCHANGED <<true_map, height, width, belief_map, agent_pos, agent_dir,
                   driver>>

LidarRuns == LidarFor \/ LidarWhile \/ LidarReturn

\* 2x3 map without Walls: the first scan leaves one cell Unknown, and the
\* agent can walk off the west and north edges onto negative positions.
Field ==
    FromRows(<< <<0, 0, 0>>,
                <<0, 0, 0>> >>)

\* the maps the scan is followed on: every 2x2 map with an Empty cell (the
\* smallest array np.loadtxt returns as 2-D) and three scenario maps
LidarMaps ==
    {[h |-> 2, w |-> 2, m |-> f] :
         f \in {g \in [CellsOf(2, 2) -> {EMPTY, WALL}] :
                    \E p \in CellsOf(2, 2) : g[p] = EMPTY}}
    \cup {OpenRoom, Corridor, Field}

InitLidar ==
    \E i \in LidarMaps :
        /\ true_map = i.m
        /\ height = i.h
        /\ width = i.w
        /\ agent_dir = 0
        /\ belief_map = ResetState.belief
        /\ agent_pos = ResetState.pos
        /\ result = ResetResult(ResetState)
        /\ episode_done = FALSE
        /\ lidar = LidarIdle
        /\ driver = DriverIdle

NextLidar ==
    \/ LidarResetCall
    \/ \E a \in ActionInputs : LidarStepCall(a)
    \/ LidarFor
    \/ LidarWhile
    \/ LidarReturn

\* a method that was called keeps executing: the interpreter runs the loops
\* of the scan to their end without waiting for anything
SpecLidar == InitLidar /\ [][NextLidar]_vars /\ WF_vars(LidarRuns)

\* ------------------------------------------------------------------------
\* The random driver (src/rand.py)
\*
\* driver holds the position of the script: pc ("idle" = at the head of the
\* episode loop, "steps" = at the head of the step loop, "finished" = past
\* both loops, "crashed" = ended by an exception of step()), episode and
\* step = the two loop variables, calls = the number of step() calls made
\* since the last reset().  render() reads belief_map and agent_pos and
\* changes neither, so it is no step of the model.
\* ------------------------------------------------------------------------
TOTAL_EPISODES == 10

MAX_STEPS_PER_EPISODE == 500

\* 3x5 map: the agent is walled into one cell and six cells stay hidden, so
\* coverage never passes 95% and an episode runs to the step limit.
Sealed ==
    FromRows(<< <<1, 1, 1, 1, 1>>,
                <<1, 0, 1, 0, 1>>,
                <<1, 1, 1, 1, 1>> >>)

\* 3x4 map: two Empty cells inside a Wall border; the first scan leaves two
\* corners Unknown, which a Forward to the east cell discovers.
Nook ==
    FromRows(<< <<1, 1, 1, 1>>,
                <<1, 0, 0, 1>>,
                <<1, 1, 1, 1>> >>)

\* 2x2 map whose only Empty cell is on the east edge: the first scan covers
\* the map, and a Forward from the start reads column 2, where step()
\* raises IndexError.
Ledge ==
    FromRows(<< <<1, 0>>,
                <<1, 1>> >>)

DriverMaps == {Sealed, Nook, Ledge}

\* the script after "env = ActiveSlamEnv(...)"
InitDriver ==
    \E i \in DriverMaps :
        /\ true_map = i.m
        /\ height = i.h
        /\ width = i.w
        /\ agent_dir = 0
        /\ belief_map = ResetState.belief
        /\ agent_pos = ResetState.pos
        /\ result = ResetResult(ResetState)
        /\ episode_done = FALSE
        /\ lidar = LidarIdle
        /\ driver = DriverIdle

\* "if done: break"
DriverBreaksNever(done) == FALSE

DriverBreaks(done) == done

\* one pass of the episode loop up to the step loop: obs = env.reset()
DriverEpisode ==
    /\ driver.pc = "idle"
    /\ driver.episode < TOTAL_EPISODES
    /\ Reset
    /\ driver' = [driver EXCEPT !.pc = "steps", !.step = 0, !.calls = 0]
    /\ UNCHANGED lidar

\* one pass of the step loop: a random action, env.step(action), then the
\* break on done; the loop also ends when range(MAX_STEPS_PER_EPISODE) is
\* used up, and an exception of step() ends the script
DriverStep ==
    /\ driver.pc = "steps"
    /\ driver.step < MAX_STEPS_PER_EPISODE
    /\ \E action \in action_space : Step(action)
    /\ driver' =
         IF result'.outcome # "ok"
         THEN [driver EXCEPT !.pc = "crashed", !.calls = driver.calls + 1]
         ELSE IF DriverBreaks(result'.done)
                  \/ driver.step + 1 = MAX_STEPS_PER_EPISODE
              THEN [driver EXCEPT !.pc = "idle",
                                  !.episode = driver.episode + 1,
                                  !.calls = driver.calls + 1]
              ELSE [driver EXCEPT !.step = driver.step + 1,
                                  !.calls = driver.calls + 1]
    /\ UNCHANGED lidar

\* the episode loop is used up
DriverFinish ==
    /\ driver.pc = "idle"
    /\ driver.episode = TOTAL_EPISODES
    /\ driver' = [driver EXCEPT !.pc = "finished"]
    /\ UNCHANGED <<true_map, height, width, belief_map, agent_pos, agent_dir,
                   result, episode_done, lidar>>

NextDriver == DriverEpisode \/ DriverStep \/ DriverFinish

SpecDriver == InitDriver /\ [][NextDriver]_vars

\* ------------------------------------------------------------------------
\* Properties
\* ------------------------------------------------------------------------
IsStep(r) == r.call = "step"

Returned(r) == r.outcome = "ok"

Plus(p, d, k) == <<p[1] + k * d[1], p[2] + k * d[2]>>

\* C1: between two resets, a belief cell that is not Unknown keeps its
\* status in every step.
MonotonicDiscovery ==
    [][IsStep(result') =>
          \A p \in Cells :
              belief_map[p] # UNKNOWN => belief_map'[p] = belief_map[p]]_vars

\* a step that discovered cells while other cells were already known
MonotonicDiscoveryWitness ==
    /\ IsStep(result) /\ Returned(result)
    /\ result.newly > 0
    /\ KnownCount(belief_map) > result.newly

\* C2: on every map, the agent always stands on an in-bounds cell that is
\* Empty in the ground truth, and no step fails.
AgentOnEmptyCellInBounds ==
    /\ InBounds(agent_pos)
    /\ true_map[agent_pos] = EMPTY
    /\ (IsStep(result) /\ result.action \in action_space => Returned(result))

\* C3: step(Forward) collides and stays when the candidate cell is a Wall of
\* the map, and otherwise moves to the candidate without collision.
ForwardMovesOrCollides ==
    [][IsStep(result') /\ result'.action = 0 =>
          LET candidate == Plus(agent_pos, directions[agent_dir + 1], 1)
          IN  IF InBounds(candidate) /\ true_map[candidate] = WALL
              THEN /\ Returned(result')
                   /\ agent_pos' = agent_pos
                   /\ result'.is_collision
                   /\ result'.reward10 = -50 + 10 * result'.newly - 1
              ELSE /\ Returned(result')
                   /\ agent_pos' = candidate
                   /\ ~result'.is_collision
                   /\ result'.reward10 = 10 * result'.newly - 1]_vars

RewardDecomposition ==
    [][IsStep(result') /\ Returned(result') =>
          LET k == Cardinality({p \in Cells : /\ belief_map[p] = UNKNOWN
                                              /\ belief_map'[p] # UNKNOWN})
              collided == result'.action = 0 /\ agent_pos' = agent_pos
          IN  /\ result'.reward10 = (IF collided THEN -50 ELSE 0) + 10 * k - 1
              /\ result'.is_collision = collided]_vars

\* a step whose scan passed over known cells and discovered new ones
RewardDecompositionWitness ==
    /\ IsStep(result) /\ Returned(result)
    /\ result.newly > 0
    /\ result.newly < Cardinality(ScanCells(agent_pos))
    /\ result.reward10 = 10 * result.newly - 1

\* C6: a step with an action code outside {0,1,2} fails with
\* InvalidActionError.
InvalidActionRejected ==
    IsStep(result) /\ result.action \notin action_space =>
        result.outcome = "InvalidActionError"

\* C7 as stated: a step after done = true fails with StepAfterDoneError and
\* changes neither the belief map nor the agent.
StepAfterDoneRejected ==
    [][IsStep(result') /\ episode_done =>
          /\ result'.outcome = "StepAfterDoneError"
          /\ UNCHANGED <<belief_map, agent_pos, agent_dir>>]_vars

\* C7 amended: a step after done = true is executed like any other step:
\* it never fails with StepAfterDoneError, a turn changes the orientation,
\* and when the step returns it returns done = true again.
StepAfterDoneAccepted ==
    [][IsStep(result') /\ episode_done =>
          /\ result'.outcome # "StepAfterDoneError"
          /\ agent_dir' = Turn(agent_dir, result'.action)
          /\ (result'.action \in {1, 2} => Returned(result'))
          /\ (Returned(result') => result'.done)]_vars

\* a turn executed after a step had returned done = true
StepAfterDoneAcceptedWitness ==
    /\ IsStep(result) /\ Returned(result)
    /\ result.was_done
    /\ result.action = 1
    /\ agent_dir = 1
    /\ result.done

\* C8: reset() puts belief map, position and orientation back to the values
\* they had after construction.
ResetRestoresFirstState ==
    result.call = "reset" =>
        /\ agent_dir = 0
        /\ agent_pos = FirstEmpty
        /\ belief_map = ResetState.belief

\* the cell p is on a ray from cell `from`, with no Wall before it
Visible(from, p) ==
    \E d \in ({-1, 0, 1} \X {-1, 0, 1}) \ {<<0, 0>>} :
        \E k \in 1 .. (height + width) :
            /\ p = Plus(from, d, k)
            /\ \A j \in 1 .. (k - 1) : true_map[Plus(from, d, j)] # WALL

\* C9: reset() places the agent on the first Empty cell in row-major order
\* and returns the row-major flattening of the belief map that is Unknown
\* except for the start cell (Empty) and the cells one scan from it records.
ResetObservation ==
    result.call = "reset" =>
        /\ Returned(result)
        /\ agent_pos \in Cells
        /\ true_map[agent_pos] = EMPTY
        /\ \A q \in Cells :
               true_map[q] = EMPTY =>
                   \/ agent_pos[1] < q[1]
                   \/ agent_pos[1] = q[1] /\ agent_pos[2] <= q[2]
        /\ Len(result.obs) = height * width
        /\ \A r \in 0 .. height - 1 : \A c \in 0 .. width - 1 :
               result.obs[r * width + c + 1] =
                   IF <<r, c>> = agent_pos THEN EMPTY
                   ELSE IF Visible(agent_pos, <<r, c>>) THEN true_map[<<r, c>>]
                   ELSE UNKNOWN

\* a reset after the agent had turned, on a map where a Wall hides a cell
ResetObservationWitness ==
    /\ result.call = "reset"
    /\ agent_dir = 2
    /\ \E p \in Cells : \E d \in LidarDirs :
           /\ Plus(p, d, 1) \in Cells
           /\ belief_map[p] = WALL
           /\ belief_map[Plus(p, d, 1)] = UNKNOWN
           /\ Plus(p, d, -1) = agent_pos

OpenRoomInterior == (1 .. 3) \X (1 .. 3)

\* C10 as stated: in the 5x5 open room, reset() places the agent at (1,1)
\* and the scan discovers every interior cell and 8 border cells, leaving
\* Unknown only cells of rows 3, 4 or columns 3, 4.
OpenRoomScanAllInterior ==
    true_map = OpenRoom.m /\ result.call = "reset" =>
        /\ agent_pos = <<1, 1>>
        /\ \A p \in OpenRoomInterior : belief_map[p] # UNKNOWN
        /\ Cardinality({p \in Cells \ OpenRoomInterior :
                           belief_map[p] # UNKNOWN}) = 8
        /\ \A p \in Cells :
               belief_map[p] = UNKNOWN => p[1] \in {3, 4} \/ p[2] \in {3, 4}

\* C10 amended: in the 5x5 open room, reset() places the agent at (1,1) and
\* the scan discovers the 7 interior cells on the rays from (1,1) and 8
\* border cells; the interior cells (2,3) and (3,2) and the other 8 border
\* cells stay Unknown, all of them in rows 3, 4 or columns 3, 4.
OpenRoomScanRaysOnly ==
    true_map = OpenRoom.m /\ result.call = "reset" =>
        /\ agent_pos = <<1, 1>>
        /\ {p \in OpenRoomInterior : belief_map[p] = EMPTY} =
               {<<1, 1>>, <<1, 2>>, <<1, 3>>, <<2, 1>>, <<3, 1>>,
                <<2, 2>>, <<3, 3>>}
        /\ {p \in Cells : belief_map[p] = WALL} =
               {<<0, 0>>, <<0, 1>>, <<0, 2>>, <<1, 0>>, <<2, 0>>,
                <<1, 4>>, <<4, 1>>, <<4, 4>>}
        /\ {p \in OpenRoomInterior : belief_map[p] = UNKNOWN} =
               {<<2, 3>>, <<3, 2>>}
        /\ \A p \in Cells :
               belief_map[p] = UNKNOWN => p[1] \in {3, 4} \/ p[2] \in {3, 4}

\* a reset of the open room after the agent had left the start cell
OpenRoomScanRaysOnlyWitness ==
    /\ true_map = OpenRoom.m
    /\ result.call = "reset"
    /\ agent_dir = 3
    /\ belief_map[<<2, 3>>] = UNKNOWN

\* C11: within an episode the number of known cells, hence the coverage
\* (the same count over the fixed height * width), never decreases from one
\* step to the next.
CoverageNonDecreasing ==
    [][IsStep(result') =>
          Cardinality({p \in Cells : belief_map'[p] # UNKNOWN})
              >= Cardinality({p \in Cells : belief_map[p] # UNKNOWN})]_vars

\* a Forward step that moved the agent and raised the coverage by 2 cells
\* or more
CoverageNonDecreasingWitness ==
    /\ IsStep(result) /\ Returned(result)
    /\ result.action = 0
    /\ ~result.is_collision
    /\ result.newly >= 2

\* East -> North -> West -> South -> East, by orientation code + 1
LeftOf == <<1, 2, 3, 0>>

\* C12: the orientation stays in {0,1,2,3}; TurnLeft advances it one step in
\* East -> North -> West -> South -> East and TurnRight goes one step back;
\* from every orientation reached, four TurnLefts (or four TurnRights) and
\* TurnLeft followed by TurnRight lead back to it.
OrientationCycle ==
    /\ [](/\ agent_dir \in 0 .. 3
          /\ Turn(Turn(Turn(Turn(agent_dir, 1), 1), 1), 1) = agent_dir
          /\ Turn(Turn(Turn(Turn(agent_dir, 2), 2), 2), 2) = agent_dir
          /\ Turn(Turn(agent_dir, 1), 2) = agent_dir)
    /\ [][/\ (IsStep(result') /\ result'.action = 1 =>
                 agent_dir' = LeftOf[agent_dir + 1])
          /\ (IsStep(result') /\ result'.action = 2 =>
                 agent_dir = LeftOf[agent_dir' + 1])]_vars

\* a TurnRight from East that wrapped round to South
OrientationCycleWitness ==
    /\ IsStep(result) /\ Returned(result)
    /\ result.action = 2
    /\ agent_dir = 3

\* C13: a TurnLeft or TurnRight step leaves the position unchanged and is
\* never scored as a collision; a Forward step leaves the orientation
\* unchanged; only a Forward step is scored as a collision.
TurnsDoNotMove ==
    [][IsStep(result') =>
          /\ (result'.action \in {1, 2} =>
                 /\ Returned(result')
                 /\ agent_pos' = agent_pos
                 /\ ~result'.is_collision
                 /\ result'.reward10 > -50)
          /\ (result'.action = 0 => agent_dir' = agent_dir)
          /\ (result'.is_collision => result'.action = 0)]_vars

\* a turn made away from the start cell
TurnsDoNotMoveWitness ==
    /\ IsStep(result) /\ Returned(result)
    /\ result.action = 1
    /\ agent_pos # FirstEmpty
    /\ result.reward10 = -1

\* the cells on the 8 rays from `from`: from + k * d for k >= 1, as long as
\* every cell before it on the ray is inside the map and not a Wall (a ray
\* holds at most max(height, width) cells of the map)
OnRays(from) ==
    UNION {{Plus(from, d, k) :
                k \in {i \in 1 .. (IF height > width THEN height ELSE width) :
                          /\ InBounds(Plus(from, d, i))
                          /\ \A j \in 1 .. (i - 1) :
                                 /\ InBounds(Plus(from, d, j))
                                 /\ true_map[Plus(from, d, j)] # WALL}} :
           d \in ({-1, 0, 1} \X {-1, 0, 1}) \ {<<0, 0>>}}

\* C16: the scan of a step (or reset) from position p writes exactly the
\* still-Unknown cells among p+d, p+2d, ... up to and including the first
\* Wall of each of the 8 rays, or up to the map edge; it writes no cell
\* behind a Wall, no cell off the rays, and not the agent's own cell.
ScanWritesRayCells ==
    [][\A rays \in {OnRays(agent_pos')} :
          /\ (IsStep(result') /\ Returned(result') =>
                 /\ {c \in Cells : belief_map'[c] # belief_map[c]} =
                        {c \in rays : belief_map[c] = UNKNOWN}
                 /\ \A c \in rays : belief_map'[c] = true_map[c]
                 /\ agent_pos' \notin rays)
          /\ (result'.call = "reset" /\ Returned(result') =>
                 {c \in Cells : belief_map'[c] # UNKNOWN} =
                     rays \cup {agent_pos'})]_vars

\* a Forward step that moved the agent and discovered cells, one of them
\* two or more cells away, while a cell off the rays stayed Unknown
ScanWritesRayCellsWitness ==
    /\ IsStep(result) /\ Returned(result)
    /\ result.action = 0
    /\ ~result.is_collision
    /\ result.newly > 0
    /\ \E c \in Cells \ OnRays(agent_pos) : belief_map[c] = UNKNOWN
    /\ \E c \in OnRays(agent_pos) : c \notin ScanCellsAdjacent(agent_pos)

\* C18: every known belief cell holds the ground-truth kind of the cell, and
\* the cell the agent stands on (the cell its position indexes) is known as
\* Empty.
BeliefMatchesTruth ==
    /\ \A p \in Cells :
           belief_map[p] # UNKNOWN => belief_map[p] = true_map[p]
    /\ belief_map[NpIndex(agent_pos)] = EMPTY

\* C19: a step that leaves the position unchanged discovers nothing and
\* leaves the belief map unchanged; a turn is rewarded exactly -0.1 and a
\* colliding Forward exactly -5.1.
StayingStepDiscoversNothing ==
    [][IsStep(result') /\ Returned(result') =>
          /\ (agent_pos' = agent_pos =>
                 /\ belief_map' = belief_map
                 /\ result'.newly = 0)
          /\ (result'.action \in {1, 2} => result'.reward10 = -1)
          /\ (result'.action = 0 /\ agent_pos' = agent_pos =>
                 result'.reward10 = -51)]_vars

\* a colliding Forward rewarded -5.1 while cells were still Unknown
StayingStepDiscoversNothingWitness ==
    /\ IsStep(result) /\ Returned(result)
    /\ result.is_collision
    /\ result.reward10 = -51
    /\ \E c \in Cells : belief_map[c] = UNKNOWN

\* C14: reset() on a map without an Empty cell fails with
\* NoStartPositionError and leaves belief map and agent state as they were.
ResetWithoutStartFailsCleanly ==
    [][result'.call = "reset" /\ ~HasEmpty =>
          /\ result'.outcome = "NoStartPositionError"
          /\ UNCHANGED <<belief_map, agent_pos, agent_dir>>]_vars

\* C15: construction from a matrix with a value outside {0,1} fails with
\* MapLoadError, so no environment holds such a map and no observation holds
\* a value outside {-1,0,1}.
BadMapRejected ==
    /\ (result.call # "new" /\ (\E p \in Cells : true_map[p] \notin {0, 1}) =>
           result.outcome = "MapLoadError")
    /\ \A i \in DOMAIN result.obs : result.obs[i] \in {-1, 0, 1}

\* C17: every scan terminates: whenever reset() or step() is inside the
\* scan (in one of its for loops or in the while loop of a ray), the scan
\* later returns to its caller, for every map and every agent position the
\* environment can be in.
ScanTerminates == (lidar.pc # "idle") ~> (lidar.pc = "idle")

\* the scan of a step that moved the agent is about to return after its
\* eighth ray, having written at least one cell
ScanTerminatesWitness ==
    /\ lidar.pc = "for"
    /\ lidar.i > LastDir
    /\ lidar.call = "step"
    /\ lidar.action = 0
    /\ ~lidar.is_collision
    /\ lidar.newly > 0

====
